---- MODULE Spec2Model ----
(***************************************************************************)
(* Model of email_archiver.py: the archiving loop run_archiver, one        *)
(* account's cycle fetch_and_archive_emails, and the one process-wide      *)
(* sqlite3 connection the cycles share.                                    *)
(*                                                                         *)
(* Python values are modelled as follows.  An optional value (a header     *)
(* that may be missing, a charset, the row fetchone() returns) is the      *)
(* empty tuple for None and a one-element tuple otherwise.  Bytes are      *)
(* tuples of numbers 0..255, decoded text is a tuple of code points.       *)
(* Header values and identity keys are strings.                            *)
(***************************************************************************)
EXTENDS Integers, Sequences, FiniteSets, TLC

\* ------------------------------------------------------------------ bounds

\* Number of rows of the accounts table.
NumAccounts == 2
\* Largest number of messages a server mailbox holds.
MaxMailbox == 2
\* Number of archiving cycles of run_archiver the model follows.
MaxTicks == 2
\* Largest number of nodes (parts) of a message whose decomposition is checked.
MaxNodes == 4

\* ------------------------------------------------------------- Python values

None == << >>
Some(x) == << x >>

\* str(x) of an optional string, as an f-string formats it.
Format(h) == IF h = None THEN "None" ELSE h[1]

\* U+FFFD, what errors='replace' puts where bytes do not decode.
REPLACEMENT == 65533

\* The codecs bytes.decode finds; any other name raises LookupError.
KnownCharsets == {"utf-8", "us-ascii", "iso-8859-1"}

\* bytes.decode("utf-8", errors='replace') for bytes below 0xE0 and the
\* bytes that are never valid (0xF5..0xFF): ASCII, two-byte sequences,
\* and one replacement character for every byte that starts no sequence.
RECURSIVE Utf8Decode(_)
Utf8Decode(bs) ==
    IF bs = << >> THEN << >>
    ELSE LET b == Head(bs)
             rest == Tail(bs)
         IN  IF b < 128 THEN << b >> \o Utf8Decode(rest)
             ELSE IF b >= 194 /\ b <= 223 /\ rest # << >>
                     /\ Head(rest) >= 128 /\ Head(rest) <= 191
             THEN << (b - 192) * 64 + (Head(rest) - 128) >> \o Utf8Decode(Tail(rest))
             ELSE << REPLACEMENT >> \o Utf8Decode(rest)

AsciiDecode(bs) == [i \in 1..Len(bs) |-> IF bs[i] < 128 THEN bs[i] ELSE REPLACEMENT]

Latin1Decode(bs) == bs

\* payload.decode(charset, errors='replace'): the text, or the LookupError
\* of a charset that is no codec.
Decode(payload, charset) ==
    IF charset \notin KnownCharsets THEN [ok |-> FALSE, text |-> << >>]
    ELSE [ok |-> TRUE,
          text |-> IF charset = "utf-8" THEN Utf8Decode(payload)
                   ELSE IF charset = "us-ascii" THEN AsciiDecode(payload)
                   ELSE Latin1Decode(payload)]

\* Lines 138-141 and 145-148: the declared charset if there is one, else
\* the default codec (utf-8).
DecodePart(part) ==
    IF part.charset # None THEN Decode(part.payload, part.charset[1])
    ELSE Decode(part.payload, "utf-8")

\* ------------------------------------------------------------- messages

\* A node of a parsed message: its content type (maintype, subtype), the
\* charset parameter, the Content-Disposition header, get_filename(), the
\* transfer-decoded payload of a leaf, and the sub-parts of a container.
Leaf(maintype, subtype, charset, disposition, filename, payload) ==
    [ctype |-> << maintype, subtype >>, charset |-> charset,
     disposition |-> disposition, filename |-> filename,
     payload |-> payload, multipart |-> FALSE, parts |-> << >>]

Container(subtype, parts) ==
    [ctype |-> << "multipart", subtype >>, charset |-> None,
     disposition |-> None, filename |-> None,
     payload |-> << >>, multipart |-> TRUE, parts |-> parts]

\* A message/rfc822 part: is_multipart() is true and walk() goes into the
\* message it holds, its main type is "message", and get_payload(decode=True)
\* of it is None.
Embedded(disposition, filename, inner) ==
    [ctype |-> << "message", "rfc822" >>, charset |-> None,
     disposition |-> disposition, filename |-> filename,
     payload |-> None, multipart |-> TRUE, parts |-> << inner >>]

get_content_type(part) == part.ctype[1] \o "/" \o part.ctype[2]
get_content_maintype(part) == part.ctype[1]

\* email.message.Message.walk(): the node, then its sub-parts, depth first.
RECURSIVE walk(_)
RECURSIVE WalkAll(_)
walk(node) == << node >> \o (IF node.multipart THEN WalkAll(node.parts) ELSE << >>)
WalkAll(nodes) == IF nodes = << >> THEN << >> ELSE walk(Head(nodes)) \o WalkAll(Tail(nodes))

Headers(mid, date, from, subject, to) ==
    [MessageID |-> mid, Date |-> date, From |-> from, Subject |-> subject, To |-> to]

H1 == Headers(Some("abc@x"), Some("Mon, 1 Jan"), Some("a@b.com"), Some("hi"), Some("c@d.com"))
H2 == Headers(None, Some("Tue, 2 Jan"), Some("a@b.com"), Some("yo"), None)

\* The messages the servers hold: what email.message_from_bytes makes of
\* the raw bytes a fetch returns.
Mail ==
    << \* 1: a single text part, no charset
       [headers |-> H1,
        root |-> Leaf("text", "plain", None, None, None, << 65 >>)],
       \* 2: no Message-ID; two text parts and two attachments
       [headers |-> H2,
        root |-> Container("mixed",
           << Leaf("text", "plain", Some("utf-8"), None, None, << 195, 169, 255 >>),
              Leaf("application", "pdf", None, Some("attachment"), Some("report.pdf"), << 1, 2 >>),
              Leaf("text", "html", Some("iso-8859-1"), Some("attachment"), Some("note.html"), << 255 >>) >>)],
       \* 3: the four headers of 1, another body, in a charset Python does not know
       [headers |-> H1,
        root |-> Leaf("text", "plain", Some("x-unknown"), None, None, << 66 >>)] >>

MailIds == 1..Len(Mail)

\* The leaves of the messages whose decomposition is checked: content type,
\* charset and payload, with every combination of a Content-Disposition
\* header and a filename.
LeafContents ==
    { << "text", "plain", None, << 65, 255 >> >>,
      << "text", "plain", Some("iso-8859-1"), << 65, 255 >> >>,
      << "text", "html", None, << 66 >> >>,
      << "application", "pdf", None, << 1, 2 >> >>,
      << "text", "plain", Some("x-unknown"), << 67 >> >> }

LeafMarks ==
    { << None, None >>,
      << Some("attachment"), None >>,
      << Some("attachment"), Some("") >>,
      << Some("attachment"), Some("report.pdf") >> }

Leaves == {Leaf(c[1], c[2], c[3], m[1], m[2], c[4]) : c \in LeafContents, m \in LeafMarks}

\* A forwarded message is embedded inline or as an attached file.
EmbeddedMarks == { << None, None >>, << Some("attachment"), Some("fwd.eml") >> }

\* The message trees of exactly m nodes, and the non-empty sequences of
\* trees of m nodes in all.
RECURSIVE Trees(_)
RECURSIVE Forests(_)
Trees(m) ==
    IF m = 1 THEN Leaves
    ELSE {Container("mixed", f) : f \in Forests(m - 1)}
         \cup {Embedded(d[1], d[2], t) : d \in EmbeddedMarks, t \in Trees(m - 1)}
Forests(m) ==
    IF m = 0 THEN {<< >>}
    ELSE UNION {{<< t >> \o f : t \in Trees(j), f \in Forests(m - j)} : j \in 1..m}

\* What email.message_from_bytes can return for a message of max parts or
\* fewer.
Messages(max) == {[headers |-> H1, root |-> t] : t \in UNION {Trees(m) : m \in 1..max}}

\* ------------------------------------------------------------------ state

VARIABLES
    accounts,        \* the accounts table: rows (id, protocol), in table order
    mailbox,         \* server side: per account, the messages (uid, mail) it holds
    archive_db,      \* email_archive.db as committed: [emails, attachments]
    conn,            \* the tables as the process-wide connection sees them:
                     \* the committed rows and the rows of its open transaction
    tick,            \* run_archiver: number of the archiving cycle
    drv,             \* run_archiver: "read", "for", "cycle"
    k,               \* run_archiver: position in the list read_accounts() returned
    pc,              \* fetch_and_archive_emails: the step it is at
    client,          \* the connection of the cycle: "unbound", "open" until the
                     \* program closes it, "closed"
    email_uids,      \* the handles enumerated at the start of the session
    n,               \* position of uid in email_uids
    raw_email,       \* the fetched message (an index into Mail), 0 before a fetch
    email_message,   \* the fetched message parsed: [headers, root], None before
    unique_id,       \* the identity key of the fetched message
    existing_email,  \* what the skip-check's fetchone() returned
    body,            \* the body text extracted from the message
    email_id,        \* cursor.lastrowid after the insert into emails
    p,               \* position in email_message.walk() while saving attachments
    fetched,         \* the handles the cycle has asked the server for, in order
    \* history, read by the properties only
    inserted,        \* emails rows inserted by the current (or last) cycle
    skipped,         \* handles skipped by the current (or last) cycle
    error,           \* the exception the current (or last) cycle logged, or None
    ran,             \* the account ids whose cycle was started in this tick
    failed_in_tick,  \* the account ids whose cycle logged an error in this tick
    origin,          \* for every row of conn.emails: account, handle and mail it came from
    batch0,          \* the number of emails and attachments rows when the cycle began
    orphans,         \* ids of the rows that a cycle ending in the except clause
                     \* left uncommitted in the open transaction
    prev_ok,         \* per account: its last cycle committed and the mailbox is as it was
    first_ok         \* prev_ok of the account when the current cycle began

driver == << tick, drv, k, ran, failed_in_tick >>
locals == << pc, client, email_uids, n, raw_email, email_message, unique_id, existing_email, body, email_id, p, fetched >>
storage == << archive_db, conn, origin >>
locals_but_pc == << client, email_uids, n, raw_email, email_message, unique_id, existing_email, body, email_id, p, fetched >>
history == << inserted, skipped, error, batch0, orphans, prev_ok, first_ok >>
vars == << accounts, mailbox, driver, locals, storage, history >>

AccountIds == 1..NumAccounts
Protocols == {"imap", "pop3"}

\* The account whose cycle is running: line 270.
account == accounts[k]
account_id == account.id
protocol == account.protocol

\* The server numbers the messages of a mailbox 101, 102, ... (IMAP UIDs).
Numbered(mails) == [i \in 1..Len(mails) |-> [uid |-> 100 + i, mail |-> mails[i]]]

\* The sequences of distinct elements of S of length len or less.
RECURSIVE SeqsUpTo(_, _)
SeqsUpTo(S, len) ==
    IF len = 0 THEN {<< >>}
    ELSE LET shorter == SeqsUpTo(S, len - 1)
         IN  shorter \cup UNION {{Append(s, x) : x \in S \ {s[j] : j \in 1..Len(s)}}
                                    : s \in {t \in shorter : Len(t) = len - 1}}

EmptyTables == [emails |-> << >>, attachments |-> << >>]

Init ==
    /\ accounts \in {[i \in AccountIds |-> [id |-> i, protocol |-> f[i]]] : f \in [AccountIds -> Protocols]}
    /\ mailbox \in [AccountIds -> {Numbered(ms) : ms \in SeqsUpTo(MailIds, MaxMailbox)}]
    /\ archive_db = EmptyTables
    /\ conn = EmptyTables
    /\ tick = 1
    /\ drv = "read"
    /\ k = 0
    /\ pc = "idle"
    /\ client = "unbound"
    /\ email_uids = << >>
    /\ n = 0
    /\ raw_email = 0
    /\ email_message = None
    /\ unique_id = ""
    /\ existing_email = None
    /\ body = << >>
    /\ email_id = 0
    /\ p = 0
    /\ fetched = << >>
    /\ inserted = 0
    /\ skipped = 0
    /\ error = None
    /\ ran = << >>
    /\ failed_in_tick = {}
    /\ origin = << >>
    /\ batch0 = [emails |-> 0, attachments |-> 0]
    /\ orphans = [emails |-> {}, attachments |-> {}]
    /\ prev_ok = [a \in AccountIds |-> FALSE]
    /\ first_ok = FALSE

\* The cycle of an IMAP account at line 128 with any message: the message
\* with handle 101 is fetched and parsed, and its key is not in the table.
\* The server and the catalogue Mail play no part from here on.
InitMime ==
    /\ accounts = << [id |-> 1, protocol |-> "imap"] >>
    /\ mailbox = [a \in AccountIds |-> << >>]
    /\ archive_db = EmptyTables
    /\ conn = EmptyTables
    /\ tick = 1
    /\ drv = "cycle"
    /\ k = 1
    /\ pc = "checked"
    /\ client = "open"
    /\ email_uids = << 101 >>
    /\ n = 1
    /\ raw_email = 0
    /\ email_message \in Messages(MaxNodes)
    /\ unique_id = "b'101'"
    /\ existing_email = None
    /\ body = << >>
    /\ email_id = 0
    /\ p = 0
    /\ fetched = << 101 >>
    /\ inserted = 0
    /\ skipped = 0
    /\ error = None
    /\ ran = << 1 >>
    /\ failed_in_tick = {}
    /\ origin = << >>
    /\ batch0 = [emails |-> 0, attachments |-> 0]
    /\ orphans = [emails |-> {}, attachments |-> {}]
    /\ prev_ok = [a \in AccountIds |-> FALSE]
    /\ first_ok = FALSE

\* --------------------------------------------------------------- the server

\* client.uid('search', None, 'ALL') / range(1, len(client.list()[1]) + 1)
Enumeration(proto, box) ==
    IF proto = "imap" THEN [i \in 1..Len(box) |-> box[i].uid]
    ELSE [i \in 1..Len(box) |-> i]

\* client.uid('fetch', uid, '(RFC822)') / client.retr(uid): the mail behind a handle.
Retrieve(proto, box, uid) ==
    IF proto = "imap"
    THEN (CHOOSE e \in {box[i] : i \in 1..Len(box)} : e.uid = uid).mail
    ELSE box[uid].mail

Remove(s, i) == SubSeq(s, 1, i - 1) \o SubSeq(s, i + 1, Len(s))

\* -------------------------------------------------------------- the tables

\* UniqueId with the POP3 ordinal made part of the key.
UniqueIdWithOrdinal(proto, uid, headers) ==
    IF proto = "imap"
    THEN "b'" \o ToString(uid) \o "'"
    ELSE ToString(uid) \o "_" \o Format(headers.MessageID) \o "_" \o Format(headers.Date) \o "_"
         \o Format(headers.From) \o "_" \o Format(headers.Subject)

\* Lines 117-121: the identity key of a fetched message.
UniqueId(proto, uid, headers) ==
    IF proto = "imap"
    THEN "b'" \o ToString(uid) \o "'"
    ELSE Format(headers.MessageID) \o "_" \o Format(headers.Date) \o "_"
         \o Format(headers.From) \o "_" \o Format(headers.Subject)

\* SelectExisting with the key compared to the wrong column.
SelectExistingBySubject(emails, key) ==
    LET hits == {i \in 1..Len(emails) : emails[i].subject = Some(key)}
    IN  IF hits = {} THEN None
        ELSE Some(emails[CHOOSE i \in hits : \A j \in hits : i <= j].id)

\* SelectExisting restricted to the rows of the account of the cycle.
SelectExistingOfAccount(emails, key) ==
    LET hits == {i \in 1..Len(emails) :
                    emails[i].unique_id = key /\ emails[i].account_id = account_id}
    IN  IF hits = {} THEN None
        ELSE Some(emails[CHOOSE i \in hits : \A j \in hits : i <= j].id)

\* SelectExisting reading the committed rows only, as a second connection would.
SelectExistingCommitted(emails, key) ==
    LET rows == archive_db.emails
        hits == {i \in 1..Len(rows) : rows[i].unique_id = key}
    IN  IF hits = {} THEN None
        ELSE Some(rows[CHOOSE i \in hits : \A j \in hits : i <= j].id)

\* Lines 124-125: SELECT id FROM emails WHERE unique_id = ?, fetchone().
\* The cursor belongs to the process-wide connection, so it reads the rows
\* of the open transaction as well as the committed ones.
SelectExisting(emails, key) ==
    LET hits == {i \in 1..Len(emails) : emails[i].unique_id = key}
    IN  IF hits = {} THEN None
        ELSE Some(emails[CHOOSE i \in hits : \A j \in hits : i <= j].id)

\* Lines 151-153: the new emails row; AUTOINCREMENT numbers it.
EmailRow(emails, acct, headers, text, key) ==
    [id |-> Len(emails) + 1, account_id |-> acct, subject |-> headers.Subject,
     sender |-> headers.From, recipients |-> headers.To, date |-> headers.Date,
     body |-> text, unique_id |-> key]

\* Lines 166-168: the new attachments row.
AttachmentRow(attachments, eid, part) ==
    [id |-> Len(attachments) + 1, email_id |-> eid,
     filename |-> part.filename[1], content |-> part.payload]

\* Lines 159-165: the parts of walk() that are saved as attachments.
IsAttachment(part) ==
    /\ get_content_maintype(part) # "multipart"
    /\ part.disposition # None
    /\ part.filename # None
    /\ part.filename[1] # ""

IsText(part) == get_content_type(part) \in {"text/plain", "text/html"}

\* Lines 133-141: body += the decoded text of every text part, in walk() order.
RECURSIVE DecodeParts(_)
DecodeParts(parts) ==
    IF parts = << >> THEN [ok |-> TRUE, text |-> << >>]
    ELSE IF ~IsText(Head(parts)) THEN DecodeParts(Tail(parts))
    ELSE LET d == DecodePart(Head(parts))
             rest == DecodeParts(Tail(parts))
         IN  IF d.ok /\ rest.ok THEN [ok |-> TRUE, text |-> d.text \o rest.text]
             ELSE [ok |-> FALSE, text |-> << >>]

\* Lines 130-148: the body of a message, or the exception decode() raised.
ExtractedBody(root) ==
    IF root.multipart THEN DecodeParts(walk(root)) ELSE DecodePart(root)

\* ------------------------------------------------------------ run_archiver

\* Line 268: accounts = read_accounts().
ReadAccounts ==
    /\ drv = "read"
    /\ drv' = "for"
    /\ k' = 1
    /\ UNCHANGED << accounts, mailbox, tick, ran, failed_in_tick, locals, storage, history >>

\* Lines 269-272 and 70-72: the call of fetch_and_archive_emails for the
\* next account of the list.
StartCycle ==
    /\ drv = "for"
    /\ k <= Len(accounts)
    /\ drv' = "cycle"
    /\ pc' = "connect"
    /\ client' = "unbound"
    /\ ran' = Append(ran, account_id)
    /\ inserted' = 0
    /\ skipped' = 0
    /\ error' = None
    /\ batch0' = [emails |-> Len(conn.emails), attachments |-> Len(conn.attachments)]
    /\ first_ok' = prev_ok[account_id]
    /\ prev_ok' = [prev_ok EXCEPT ![account_id] = FALSE]
    /\ UNCHANGED << email_message, accounts, mailbox, tick, k, failed_in_tick, storage, orphans,
                    email_uids, n, raw_email, unique_id, existing_email, body, email_id, p, fetched >>

\* Lines 272-273 and 266: the list is exhausted; sleep, then the next cycle.
\* What the properties remember of the cycles of a tick ends with the tick.
Sleep ==
    /\ drv = "for"
    /\ k > Len(accounts)
    /\ tick < MaxTicks
    /\ tick' = tick + 1
    /\ drv' = "read"
    /\ k' = 0
    /\ client' = "unbound"
    /\ ran' = << >>
    /\ failed_in_tick' = {}
    /\ inserted' = 0
    /\ skipped' = 0
    /\ error' = None
    /\ batch0' = [emails |-> 0, attachments |-> 0]
    /\ first_ok' = FALSE
    /\ UNCHANGED << email_message, accounts, mailbox, storage, orphans, prev_ok,
                    pc, email_uids, n, raw_email, unique_id, existing_email, body, email_id, p, fetched >>

\* The local variables of fetch_and_archive_emails that a message sets.
ResetMessage ==
    /\ raw_email' = 0
    /\ email_message' = None
    /\ unique_id' = ""
    /\ existing_email' = None
    /\ body' = << >>
    /\ email_id' = 0
    /\ p' = 0

\* fetch_and_archive_emails returns; run_archiver goes on at position next_k
\* of its list.
ReturnTo(next_k) ==
    /\ drv' = "for"
    /\ k' = next_k
    /\ pc' = "idle"
    /\ email_uids' = << >>
    /\ n' = 0
    /\ fetched' = << >>
    /\ ResetMessage
    /\ UNCHANGED << tick, ran >>

\* Line 269: the for loop takes the next account.
Return == ReturnTo(k + 1)

\* Line 185: the error is logged.  Nothing is rolled back and the client is
\* not closed.  conn_after is the connection's view after the statement
\* that raised.
LogError(kind, conn_after) ==
    /\ error' = Some(kind)
    /\ failed_in_tick' = failed_in_tick \cup {account_id}
    /\ conn' = conn_after
    /\ origin' = SubSeq(origin, 1, Len(conn_after.emails))
    /\ orphans' =
          [emails |-> (orphans.emails \cap (1..Len(conn_after.emails)))
                         \cup (Len(archive_db.emails) + 1 .. Len(conn_after.emails)),
           attachments |-> (orphans.attachments \cap (1..Len(conn_after.attachments)))
                         \cup (Len(archive_db.attachments) + 1 .. Len(conn_after.attachments))]
    /\ UNCHANGED << accounts, mailbox, archive_db, client, inserted, skipped, batch0, prev_ok, first_ok >>

\* ExceptHandler with the error ending the for loop of run_archiver, as a
\* try around the loop instead of around the cycle would.
ExceptHandlerEndsLoop(kind, conn_after) ==
    /\ LogError(kind, conn_after)
    /\ ReturnTo(Len(accounts) + 1)

\* ExceptHandler with a retry: the error is logged and the loop takes the
\* same handle again, as a try inside the for loop of line 96 with a retry
\* would.
ExceptHandlerRetries(kind, conn_after) ==
    /\ LogError(kind, conn_after)
    /\ pc' = IF pc \in {"fetched", "checked", "insert", "attachments"} THEN "loop" ELSE pc
    /\ ResetMessage
    /\ UNCHANGED << tick, drv, k, ran, email_uids, n, fetched >>

\* Lines 184-185 and 269: the except clause catches every Exception of the
\* cycle, and the function returns normally.
ExceptHandler(kind, conn_after) ==
    /\ LogError(kind, conn_after)
    /\ Return

\* ------------------------------------------------ fetch_and_archive_emails

\* Line 75 / line 86: the connection to the server.
Connect ==
    /\ drv = "cycle" /\ pc = "connect"
    /\ client' = "open"
    /\ pc' = "login"
    /\ UNCHANGED << email_message, accounts, mailbox, driver, storage, history,
                    email_uids, n, raw_email, unique_id, existing_email, body, email_id, p, fetched >>

\* Lines 76-79 / lines 87-88: login, and for IMAP the select of the mailbox.
Login ==
    /\ drv = "cycle" /\ pc = "login"
    /\ pc' = "enumerate"
    /\ UNCHANGED << email_message, accounts, mailbox, client, driver, storage, history,
                    email_uids, n, raw_email, unique_id, existing_email, body, email_id, p, fetched >>

\* Lines 81-83 / lines 90-92: the handles of the messages, taken once.
Enumerate ==
    /\ drv = "cycle" /\ pc = "enumerate"
    /\ email_uids' = Enumeration(protocol, mailbox[account_id])
    /\ n' = 1
    /\ pc' = "loop"
    /\ UNCHANGED << email_message, accounts, mailbox, client, driver, storage, history,
                    raw_email, unique_id, existing_email, body, email_id, p, fetched >>

\* Lines 96-105: the next handle of the loop; the raw message is fetched.
Fetch ==
    /\ drv = "cycle" /\ pc = "loop"
    /\ n <= Len(email_uids)
    /\ raw_email' = Retrieve(protocol, mailbox[account_id], email_uids[n])
    /\ fetched' = Append(fetched, email_uids[n])
    /\ pc' = "fetched"
    /\ UNCHANGED << email_message, accounts, mailbox, client, driver, storage, history,
                    email_uids, n, unique_id, existing_email, body, email_id, p >>

\* Lines 107-125: parse, build the identity key, look it up.
ResolveIdentity ==
    /\ drv = "cycle" /\ pc = "fetched"
    /\ email_message' = Mail[raw_email]
    /\ LET key == UniqueId(protocol, email_uids[n], Mail[raw_email].headers)
       IN  /\ unique_id' = key
           /\ existing_email' = SelectExisting(conn.emails, key)
    /\ pc' = "checked"
    /\ UNCHANGED << accounts, mailbox, client, driver, storage, history,
                    email_uids, n, raw_email, body, email_id, p, fetched >>

\* Skip with the stored row brought up to date: the body of the row the
\* skip-check found is replaced by the body of the message just fetched.
SkipOverwrites ==
    /\ drv = "cycle" /\ pc = "checked"
    /\ existing_email # None
    /\ conn' = [conn EXCEPT !.emails[existing_email[1]].body =
                                ExtractedBody(email_message.root).text]
    /\ skipped' = skipped + 1
    /\ n' = n + 1
    /\ pc' = "loop"
    /\ ResetMessage
    /\ UNCHANGED << accounts, mailbox, client, driver, archive_db, origin, email_uids, fetched,
                    inserted, error, batch0, orphans, prev_ok, first_ok >>

\* Lines 126-128: the message exists; continue with the next handle.
Skip ==
    /\ drv = "cycle" /\ pc = "checked"
    /\ existing_email # None
    /\ skipped' = skipped + 1
    /\ n' = n + 1
    /\ pc' = "loop"
    /\ ResetMessage
    /\ UNCHANGED << accounts, mailbox, client, driver, storage, email_uids, fetched,
                    inserted, error, batch0, orphans, prev_ok, first_ok >>

\* Lines 130-148: the body; decode() of an unknown charset raises LookupError,
\* which the except clause of line 184 catches.
ExtractBody ==
    /\ drv = "cycle" /\ pc = "checked"
    /\ existing_email = None
    /\ LET b == ExtractedBody(email_message.root)
       IN  \/ /\ b.ok
              /\ body' = b.text
              /\ pc' = "insert"
              /\ UNCHANGED << email_message, accounts, mailbox, client, driver, storage, history,
                              email_uids, n, raw_email, unique_id, existing_email, email_id, p, fetched >>
           \/ /\ ~b.ok
              /\ ExceptHandler("LookupError", conn)

\* Lines 150-155: the emails row, inserted in the open transaction.
InsertEmail ==
    /\ drv = "cycle" /\ pc = "insert"
    /\ LET row == EmailRow(conn.emails, account_id, email_message.headers, body, unique_id)
       IN  /\ conn' = [conn EXCEPT !.emails = Append(@, row)]
           /\ email_id' = row.id
    /\ origin' = Append(origin, [account |-> account_id, uid |-> email_uids[n], mail |-> raw_email])
    /\ inserted' = inserted + 1
    /\ p' = 1
    /\ pc' = "attachments"
    /\ UNCHANGED << email_message, accounts, mailbox, client, driver, archive_db, email_uids, n, raw_email,
                    unique_id, existing_email, body, fetched,
                    skipped, error, batch0, orphans, prev_ok, first_ok >>

\* Lines 157-170: one part of walk(); a part with a disposition and a
\* filename is inserted into attachments.
SaveAttachment ==
    /\ drv = "cycle" /\ pc = "attachments"
    /\ p <= Len(walk(email_message.root))
    /\ LET part == walk(email_message.root)[p]
       IN  conn' = IF IsAttachment(part)
                   THEN [conn EXCEPT !.attachments =
                            Append(@, AttachmentRow(conn.attachments, email_id, part))]
                   ELSE conn
    /\ p' = p + 1
    /\ UNCHANGED << email_message, accounts, mailbox, client, driver, archive_db, origin, history,
                    pc, email_uids, n, raw_email, unique_id, existing_email, body, email_id, fetched >>

\* Line 96: walk() is exhausted; the loop goes to the next handle.
NextMessage ==
    /\ drv = "cycle" /\ pc = "attachments"
    /\ p > Len(walk(email_message.root))
    /\ n' = n + 1
    /\ pc' = "loop"
    /\ ResetMessage
    /\ UNCHANGED << accounts, mailbox, client, driver, storage, history, email_uids, fetched >>

\* Commit without its effect: the function goes on to close the session and
\* the rows stay in the open transaction.
CommitForgotten ==
    /\ drv = "cycle" /\ pc = "loop"
    /\ n > Len(email_uids)
    /\ prev_ok' = [prev_ok EXCEPT ![account_id] = TRUE]
    /\ pc' = "close"
    /\ UNCHANGED << accounts, mailbox, driver, storage, locals_but_pc,
                    inserted, skipped, error, batch0, orphans, first_ok >>

\* Lines 172-173: conn.commit() makes every row of the open transaction
\* durable, whichever cycle inserted it.
Commit ==
    /\ drv = "cycle" /\ pc = "loop"
    /\ n > Len(email_uids)
    /\ archive_db' = conn
    /\ prev_ok' = [prev_ok EXCEPT ![account_id] = TRUE]
    /\ pc' = "close"
    /\ UNCHANGED << accounts, mailbox, driver, conn, origin, locals_but_pc,
                    inserted, skipped, error, batch0, orphans, first_ok >>

\* Lines 175-182: the session is closed and the function returns.
Close ==
    /\ drv = "cycle" /\ pc = "close"
    /\ client' = "closed"
    /\ Return
    /\ UNCHANGED << accounts, mailbox, failed_in_tick, storage, history >>

\* ----------------------------------------------------------------- failures

\* Line 75 / line 86 raises: client is not bound.
ConnectFails ==
    /\ drv = "cycle" /\ pc = "connect"
    /\ ExceptHandler("ConnectionError", conn)

\* A call on the open client raises: login or select (lines 76-79, 87-88),
\* the enumeration (lines 82, 91), a fetch (lines 101, 105), the close
\* (lines 177-180).
SessionFails ==
    /\ drv = "cycle"
    /\ \/ pc = "login" /\ ExceptHandler("AuthError", conn)
       \/ pc = "enumerate" /\ ExceptHandler("ProtocolError", conn)
       \/ pc = "loop" /\ n <= Len(email_uids) /\ ExceptHandler("ProtocolError", conn)
       \/ pc = "close" /\ ExceptHandler("ConnectionError", conn)

\* An INSERT raises (lines 151, 167); the rows inserted before it stay in
\* the open transaction.
StorageFails ==
    /\ drv = "cycle"
    /\ \/ pc = "insert"
       \/ /\ pc = "attachments"
          /\ p <= Len(walk(email_message.root))
          /\ IsAttachment(walk(email_message.root)[p])
    /\ ExceptHandler("StorageError", conn)

\* conn.commit() raises (line 173): SQLite either keeps the transaction open
\* (the database is busy) or has rolled it back (disk full, I/O error).
CommitFails ==
    /\ drv = "cycle" /\ pc = "loop"
    /\ n > Len(email_uids)
    /\ \E c \in {conn, archive_db} : ExceptHandler("StorageError", c)

\* ----------------------------------------------------------- the server side

\* Another client deletes a message while the archiver sleeps.  POP3
\* numbers the remaining messages afresh in the next session; IMAP UIDs stay.
Expunge ==
    /\ drv = "read"
    /\ \E a \in AccountIds : \E i \in 1..Len(mailbox[a]) :
          /\ mailbox' = [mailbox EXCEPT ![a] = Remove(@, i)]
          /\ prev_ok' = [prev_ok EXCEPT ![a] = FALSE]
    /\ UNCHANGED << accounts, driver, locals, storage,
                    inserted, skipped, error, batch0, orphans, first_ok >>

\* ------------------------------------------------------------ specification

Next ==
    \/ ReadAccounts
    \/ StartCycle
    \/ Sleep
    \/ Connect
    \/ Login
    \/ Enumerate
    \/ Fetch
    \/ ResolveIdentity
    \/ Skip
    \/ ExtractBody
    \/ InsertEmail
    \/ SaveAttachment
    \/ NextMessage
    \/ Commit
    \/ Close
    \/ ConnectFails
    \/ SessionFails
    \/ StorageFails
    \/ CommitFails
    \/ Expunge

Spec == Init /\ [][Next]_vars

\* Lines 130-170 alone: the decomposition and the inserts of one message.
NextMime ==
    \/ ExtractBody
    \/ InsertEmail
    \/ SaveAttachment
    \/ NextMessage

SpecMime == InitMime /\ [][NextMime]_vars

TypeOK ==
    /\ drv \in {"read", "for", "cycle"}
    /\ pc \in {"idle", "connect", "login", "enumerate", "loop", "fetched", "checked",
               "insert", "attachments", "close"}
    /\ Len(origin) = Len(conn.emails)
    /\ Len(archive_db.emails) <= Len(conn.emails)
    /\ SubSeq(conn.emails, 1, Len(archive_db.emails)) = archive_db.emails

\* ------------------------------------------------------------- properties

InCycle == drv = "cycle"

\* The identity key the cycle computes for the i-th enumerated handle.
KeyOfHandle(i) ==
    UniqueId(protocol, email_uids[i],
             Mail[Retrieve(protocol, mailbox[account_id], email_uids[i])].headers)

RowsWithKey(emails, key) == {i \in 1..Len(emails) : emails[i].unique_id = key}

Committed(id) == id <= Len(archive_db.emails)

ProtocolOfRow(i) == accounts[origin[i].account].protocol

SameFourHeaders(g, h) ==
    /\ g.MessageID = h.MessageID
    /\ g.Date = h.Date
    /\ g.From = h.From
    /\ g.Subject = h.Subject

\* C1: a cycle that follows a committed cycle of the same account, with the
\* mailbox unchanged between them, inserts nothing; when it has committed it
\* has skipped every enumerated handle, and the archive holds exactly one
\* row for the key of each of them.
C1_Idempotent ==
    (InCycle /\ first_ok) =>
        /\ inserted = 0
        /\ pc = "close" =>
              /\ skipped = Len(email_uids)
              /\ \A i \in 1..Len(email_uids) :
                    Cardinality(RowsWithKey(archive_db.emails, KeyOfHandle(i))) = 1

\* The second run of the scenario with the IMAP identifiers 101 and 102.
C1_Witness ==
    /\ InCycle /\ first_ok /\ pc = "close"
    /\ protocol = "imap"
    /\ email_uids = << 101, 102 >>
    /\ inserted = 0
    /\ skipped = 2

\* C2: no row of the batch that a failed cycle left uncommitted is ever in
\* the committed tables.
C2_NoPartialCommit ==
    /\ \A id \in orphans.emails : id > Len(archive_db.emails)
    /\ \A id \in orphans.attachments : id > Len(archive_db.attachments)

\* C3: the row the skip-check finds is never a row of the batch of a failed cycle.
C3_SkipOnlyCommitted ==
    (InCycle /\ pc = "checked" /\ existing_email # None) =>
        existing_email[1] \notin orphans.emails

\* The attachments the decomposition of a message produces: (filename, content).
AttachmentsOf(root) ==
    LET parts == SelectSeq(walk(root), IsAttachment)
    IN  [i \in 1..Len(parts) |-> << parts[i].filename[1], parts[i].payload >>]

StoredAttachments(attachments, eid) ==
    LET rows == SelectSeq(attachments, LAMBDA r : r.email_id = eid)
    IN  [i \in 1..Len(rows) |-> << rows[i].filename, rows[i].content >>]

\* C4: every committed emails row has, committed with it, exactly the
\* attachments of the message it was made from.
C4_MessageWithAllAttachments ==
    \A i \in 1..Len(archive_db.emails) :
        StoredAttachments(archive_db.attachments, archive_db.emails[i].id)
            = AttachmentsOf(Mail[origin[i].mail].root)

\* C5: no two emails rows, committed or of the open transaction, have the
\* same identity key.
C5_UniqueKeys ==
    /\ \A i, j \in 1..Len(conn.emails) :
          conn.emails[i].unique_id = conn.emails[j].unique_id => i = j
    /\ \A i, j \in 1..Len(archive_db.emails) :
          archive_db.emails[i].unique_id = archive_db.emails[j].unique_id => i = j

\* The skip-check finds a row that the batch in progress inserted itself.
C5_Witness ==
    /\ InCycle /\ pc = "checked"
    /\ existing_email # None
    /\ existing_email[1] > batch0.emails
    /\ ~Committed(existing_email[1])

\* C6: in every tick the cycles are started for the accounts of the list in
\* order, one each, whatever cycle failed: the started cycles are the first
\* accounts of the list up to the position of the loop.
C6_EveryAccountEveryTick ==
    /\ ran = [i \in 1..Len(ran) |-> accounts[i].id]
    /\ failed_in_tick \subseteq {ran[i] : i \in 1..Len(ran)}
    /\ InCycle => Len(ran) = k
    /\ drv = "for" => Len(ran) = k - 1

\* The second tick ends with every account's cycle run and failed.
C6_Witness ==
    /\ tick = MaxTicks
    /\ drv = "for" /\ k > Len(accounts)
    /\ Len(ran) = NumAccounts
    /\ failed_in_tick = AccountIds

\* C7: outside a cycle no client is open.
C7_SessionClosedOnFailure ==
    ~InCycle => client # "open"

\* The stored row came from a POP3 message with the four headers of the
\* message just fetched.
Collides(i) ==
    /\ ProtocolOfRow(i) = "pop3"
    /\ SameFourHeaders(Mail[origin[i].mail].headers, Mail[raw_email].headers)

\* C8: a POP3 message with the Message-ID, Date, From and Subject of a
\* stored POP3 message gets the key of that row and is found by the
\* skip-check; a message that is found is skipped: nothing is stored, no
\* error is logged and the loop goes to the next handle.
C8_HeaderCollisionSkipped ==
    /\ [](InCycle /\ pc = "checked" /\ protocol = "pop3" =>
            \A i \in 1..Len(conn.emails) :
                Collides(i) => /\ conn.emails[i].unique_id = unique_id
                               /\ existing_email # None)
    /\ [][(InCycle /\ pc = "checked" /\ existing_email # None) =>
            /\ pc' = "loop"
            /\ n' = n + 1
            /\ skipped' = skipped + 1
            /\ inserted' = inserted
            /\ conn' = conn
            /\ archive_db' = archive_db
            /\ failed_in_tick' = failed_in_tick
            /\ drv' = drv]_vars

\* A POP3 message is skipped because of a row made from another message.
C8_Witness ==
    /\ InCycle /\ pc = "checked" /\ protocol = "pop3"
    /\ existing_email # None
    /\ origin[existing_email[1]].mail # raw_email
    /\ Mail[origin[existing_email[1]].mail].root # Mail[raw_email].root

\* C9: the key does not depend on where the message is retrieved.  A POP3
\* message has the key of every stored POP3 row with its four headers,
\* whatever ordinal that row was fetched at; an IMAP message has the key of
\* every stored IMAP row fetched under its UID, whatever message that was.
\* Either way the skip-check finds the row.
C9_KeyIndependentOfOrder ==
    (InCycle /\ pc = "checked") =>
        \A i \in 1..Len(conn.emails) :
            (\/ protocol = "pop3" /\ Collides(i)
             \/ /\ protocol = "imap" /\ ProtocolOfRow(i) = "imap"
                /\ origin[i].uid = email_uids[n])
            => /\ conn.emails[i].unique_id = unique_id
               /\ existing_email # None

\* A committed POP3 message comes back at another ordinal, and is skipped.
C9_Witness ==
    /\ InCycle /\ pc = "checked" /\ protocol = "pop3"
    /\ existing_email # None
    /\ Committed(existing_email[1])
    /\ origin[existing_email[1]].account = account_id
    /\ origin[existing_email[1]].mail = raw_email
    /\ origin[existing_email[1]].uid # email_uids[n]

\* C10: no cycle ends with an error raised by the decoding of a body.
C10_DecodeNeverAborts ==
    error # Some("LookupError")

\* conn.commit() has returned in the cycle that is running, or that ran last
\* in this tick: StartCycle clears the mark of the account, Commit sets it,
\* and no message is expunged before the tick ends.
CommitIssued == ran # << >> /\ prev_ok[ran[Len(ran)]]

\* C11: a cycle commits once, after the loop over the handles has ended
\* without error and never while it runs, and a cycle that ended in the
\* except clause has issued no commit.
C11_SingleCommitPerCycle ==
    /\ (InCycle /\ pc # "close") => ~CommitIssued
    /\ (InCycle /\ pc = "close") => (CommitIssued /\ n > Len(email_uids) /\ error = None)
    /\ (drv = "for" /\ error # None) => ~CommitIssued

\* C12: a cycle asks the server for its handles in the order of the
\* enumeration, each one once; and from the step that logs the error of a
\* cycle until the next cycle starts nothing is fetched and nothing is
\* inserted: the cycle is over, and the handle that failed is asked for
\* again only by a cycle that starts later.
C12_NoInCycleRetry ==
    /\ [](/\ InCycle => (Len(fetched) <= Len(email_uids)
                          /\ fetched = SubSeq(email_uids, 1, Len(fetched)))
           /\ \A i, j \in 1..Len(fetched) : (fetched[i] = fetched[j] => i = j)
           /\ error # None => (~InCycle /\ pc = "idle" /\ fetched = << >>))
    /\ [][(error # None /\ error' # None) =>
             (fetched' = fetched /\ conn' = conn /\ inserted' = inserted)]_vars

\* The fetch of the second of two handles has failed: the first message is
\* inserted, the cycle is over and the loop of run_archiver is at the next
\* account.
C12_Witness ==
    /\ drv = "for"
    /\ error = Some("ProtocolError")
    /\ inserted = 1 /\ skipped = 0
    /\ Len(mailbox[ran[Len(ran)]]) = 2
    /\ fetched = << >>

\* The decoded text of the text/plain and text/html leaves of a tree, depth
\* first, left to right; no other node adds to it.
RECURSIVE TextOfLeaves(_)
RECURSIVE TextOfForest(_)
TextOfLeaves(node) ==
    IF node.parts # << >> THEN TextOfForest(node.parts)
    ELSE IF IsText(node) THEN DecodePart(node).text
    ELSE << >>
TextOfForest(nodes) ==
    IF nodes = << >> THEN << >>
    ELSE TextOfLeaves(Head(nodes)) \o TextOfForest(Tail(nodes))

\* C13: the body extracted from a message, and stored in its emails row, is
\* the decoded text of its text/plain and text/html leaves in depth-first
\* order, whether the message is a single part or multipart.
C13_BodyOfTextLeaves ==
    /\ (InCycle /\ pc \in {"insert", "attachments"}) =>
           body = TextOfLeaves(email_message.root)
    /\ (InCycle /\ pc = "attachments") =>
           conn.emails[email_id].body = TextOfLeaves(email_message.root)

\* One record (filename, payload) for every leaf of a tree that has a
\* Content-Disposition header and a filename that is not empty, depth first;
\* nothing for any other leaf and nothing for a container.
RECURSIVE RecordsOfLeaves(_)
RECURSIVE RecordsOfForest(_)
RecordsOfLeaves(node) ==
    IF node.parts # << >> THEN RecordsOfForest(node.parts)
    ELSE IF node.disposition # None /\ node.filename # None /\ node.filename[1] # ""
    THEN << << node.filename[1], node.payload >> >>
    ELSE << >>
RecordsOfForest(nodes) ==
    IF nodes = << >> THEN << >>
    ELSE RecordsOfLeaves(Head(nodes)) \o RecordsOfForest(Tail(nodes))

\* C14: when the loop over the parts of a newly inserted message has ended,
\* the attachments rows of the message are one row for each leaf with a
\* disposition and a non-empty filename, with that filename and the payload
\* of the leaf, and no row for any other leaf or for a container.
C14_AttachmentPerMarkedLeaf ==
    (InCycle /\ pc = "attachments" /\ p > Len(walk(email_message.root))) =>
        StoredAttachments(conn.attachments, email_id) = RecordsOfLeaves(email_message.root)

\* The cycle has asked the server for the raw message of the handle the
\* loop is at.
HandleFetched == n >= 1 /\ n <= Len(fetched)

\* C15: the raw message of a handle is fetched only when the key of the
\* handle is resolved and the skip-check has not found it; a handle that
\* the skip-check finds is skipped with its message neither fetched nor
\* parsed.
C15_SkipCheckBeforeFetch ==
    /\ (InCycle /\ HandleFetched) => (unique_id # "" /\ existing_email = None)
    /\ (InCycle /\ pc = "checked" /\ existing_email # None) =>
           (~HandleFetched /\ raw_email = 0 /\ email_message = None)

\* C16: no step changes or removes a committed row.  The committed emails
\* and attachments rows stay as they are, rows are only added after them,
\* no attachment is added to a committed message, and the step that follows
\* a hit of the skip-check changes no row at all, committed or not.
C16_CommittedRowsImmutable ==
    [][/\ Len(archive_db'.emails) >= Len(archive_db.emails)
       /\ SubSeq(archive_db'.emails, 1, Len(archive_db.emails)) = archive_db.emails
       /\ Len(archive_db'.attachments) >= Len(archive_db.attachments)
       /\ SubSeq(archive_db'.attachments, 1, Len(archive_db.attachments)) = archive_db.attachments
       /\ \A i \in 1..Len(archive_db.emails) :
             StoredAttachments(archive_db'.attachments, archive_db.emails[i].id)
                = StoredAttachments(archive_db.attachments, archive_db.emails[i].id)
       /\ (InCycle /\ pc = "checked" /\ existing_email # None) =>
             (conn' = conn /\ archive_db' = archive_db)]_vars

\* The skip-check finds the committed row of another IMAP message: the one
\* just fetched under the same UID has another body.
C16_Witness ==
    /\ InCycle /\ pc = "checked" /\ protocol = "imap"
    /\ existing_email # None
    /\ Committed(existing_email[1])
    /\ ExtractedBody(email_message.root).ok
    /\ ExtractedBody(email_message.root).text # archive_db.emails[existing_email[1]].body

\* C17: when conn.commit() of a cycle has returned, the committed emails
\* table has a row with the key of every handle the cycle enumerated, and
\* every handle was either inserted or skipped by the cycle.
C17_EveryHandleCommitted ==
    (InCycle /\ pc = "close") =>
        /\ inserted + skipped = Len(email_uids)
        /\ \A i \in 1..Len(email_uids) :
              RowsWithKey(archive_db.emails, KeyOfHandle(i)) # {}

\* A cycle has committed with one handle inserted and one skipped, the
\* skipped one found in a row that an earlier, failed cycle had left behind.
C17_Witness ==
    /\ InCycle /\ pc = "close"
    /\ Len(email_uids) = 2
    /\ inserted = 1 /\ skipped = 1
    /\ \E i \in 1..Len(email_uids) :
          RowsWithKey(archive_db.emails, KeyOfHandle(i)) \cap orphans.emails # {}

\* The rows of the connection that have the key of the message just
\* fetched and belong to another account than the one of the cycle.
RowsOfOtherAccounts ==
    {i \in 1..Len(conn.emails) :
        conn.emails[i].unique_id = unique_id /\ conn.emails[i].account_id # account_id}

\* C18: the skip-check looks at the rows of every account.  A message whose
\* key is the key of a row of another account is found by the skip-check,
\* and no key ever has rows of two accounts.
C18_SkipCheckAcrossAccounts ==
    /\ (InCycle /\ pc = "checked" /\ RowsOfOtherAccounts # {}) =>
           (existing_email # None /\ existing_email[1] \in RowsOfOtherAccounts)
    /\ (InCycle /\ pc \in {"insert", "attachments"}) => RowsOfOtherAccounts = {}
    /\ \A i, j \in 1..Len(conn.emails) :
           conn.emails[i].unique_id = conn.emails[j].unique_id =>
               conn.emails[i].account_id = conn.emails[j].account_id

\* The second of two IMAP accounts that both have a message with UID 101
\* fetches its message when the row of the first account is committed.
C18_Witness ==
    /\ InCycle /\ pc = "checked" /\ protocol = "imap"
    /\ email_uids[n] = 101
    /\ existing_email # None
    /\ Committed(existing_email[1])
    /\ conn.emails[existing_email[1]].account_id # account_id
    /\ ProtocolOfRow(existing_email[1]) = "imap"
    /\ origin[existing_email[1]].uid = 101

====
